---- MODULE Spec2Model ----
(***************************************************************************)
(* Model of the request pipeline and the font cache of src/index.ts        *)
(* (a Hono application): the middleware chain, the /og.png and             *)
(* /sitemap.xml handlers, the path-traversal gate and the static handler.  *)
(*                                                                         *)
(* Strings are sequences of one-character strings, so that URL parsing,    *)
(* path.join, startsWith and .length are computed as the code computes     *)
(* them.                                                                   *)
(***************************************************************************)
EXTENDS Integers, Sequences, FiniteSets, TLC

(***************************************************************************)
(* Bounds of the model.                                                    *)
(***************************************************************************)
\* Number of requests the server may have in flight at the same time.
MaxReqs == 2

\* Longest string escapeXml is applied to on its own.
MaxLen == 3

(***************************************************************************)
(* Program constants.                                                      *)
(***************************************************************************)
MAX_URI_LENGTH == 2048

\* import.meta.dir: the directory of index.ts at run time (an absolute path).
ModuleDir == <<"/", "s", "r", "v", "/", "a", "p", "p">>
PublicName == <<"p", "u", "b", "l", "i", "c">>
sep == <<"/">>
IndexName == <<"i", "n", "d", "e", "x", ".", "h", "t", "m", "l">>

(***************************************************************************)
(* String helpers.                                                         *)
(***************************************************************************)
\* A call: the argument is evaluated once, then F is applied to its value.
Call(F(_), x) == CHOOSE y \in {F(v) : v \in {x}} : TRUE

startsWith(s, prefix) ==
    /\ Len(s) >= Len(prefix)
    /\ SubSeq(s, 1, Len(prefix)) = prefix

endsWith(s, suffix) ==
    /\ Len(s) >= Len(suffix)
    /\ SubSeq(s, Len(s) - Len(suffix) + 1, Len(s)) = suffix

\* The segments of a path that starts with "/": the text after each "/".
SplitAt(s, P) ==
    LET n == Cardinality(P)
        Nth(k) == CHOOSE i \in P : Cardinality({j \in P : j < i}) = k - 1
        End(k) == IF k = n THEN Len(s) ELSE Nth(k + 1) - 1
    IN  [k \in 1..n |-> SubSeq(s, Nth(k) + 1, End(k))]

Split(str) ==
    Call(LAMBDA s : Call(LAMBDA P : SplitAt(s, P), {i \in 1..Len(s) : s[i] = "/"}), str)

RECURSIVE JoinSegs(_)
JoinSegs(segments) ==
    Call(LAMBDA segs :
           IF segs = <<>> THEN <<>>
           ELSE <<"/">> \o Head(segs) \o JoinSegs(Tail(segs)),
         segments)

DropLast(segs) == IF segs = <<>> THEN <<>> ELSE SubSeq(segs, 1, Len(segs) - 1)

(***************************************************************************)
(* new URL(c.req.url).pathname: the WHATWG URL parser's path state for an  *)
(* http URL.  "." and ".." segments (also written %2e) are resolved while  *)
(* parsing; a "%2f" is not decoded and does not separate segments.         *)
(***************************************************************************)
IsSingleDot(seg) == seg \in {<<".">>, <<"%", "2", "e">>}

IsDoubleDot(seg) ==
    seg \in {<<".", ".">>, <<".", "%", "2", "e">>, <<"%", "2", "e", ".">>,
             <<"%", "2", "e", "%", "2", "e">>}

RECURSIVE UrlSegs(_, _, _)
UrlSegs(segs, k, acc) ==
    IF k > Len(segs) THEN acc
    ELSE LET seg == segs[k]
             trail == IF k = Len(segs) THEN << <<>> >> ELSE <<>>
         IN  Call(LAMBDA out : UrlSegs(segs, k + 1, out),
                  IF IsDoubleDot(seg) THEN DropLast(acc) \o trail
                  ELSE IF IsSingleDot(seg) THEN acc \o trail
                  ELSE Append(acc, seg))

UrlPathname(target) == Call(LAMBDA segs : JoinSegs(UrlSegs(segs, 1, <<>>)), Split(target))

(***************************************************************************)
(* path.join (POSIX): concatenate with "/" and normalize: empty and "."    *)
(* segments are dropped, ".." removes the segment before it (nothing at    *)
(* the root), a trailing "/" is kept.                                      *)
(***************************************************************************)
RECURSIVE NormSegs(_, _, _)
NormSegs(segs, k, acc) ==
    IF k > Len(segs) THEN acc
    ELSE LET seg == segs[k]
         IN  Call(LAMBDA out : NormSegs(segs, k + 1, out),
                  IF seg = <<".", ".">> THEN DropLast(acc)
                  ELSE IF seg = <<>> \/ seg = <<".">> THEN acc
                  ELSE Append(acc, seg))

normalize(path) ==
    Call(LAMBDA p :
           Call(LAMBDA segs :
                  Call(LAMBDA out :
                         IF out = <<>> THEN <<"/">>
                         ELSE JoinSegs(out)
                                  \o (IF endsWith(p, <<"/">>) THEN <<"/">> ELSE <<>>),
                       NormSegs(segs, 1, <<>>)),
                Split(p)),
         path)

join(a, b) == normalize(a \o <<"/">> \o b)

PUBLIC_DIR == join(ModuleDir, PublicName)

(***************************************************************************)
(* decodeURIComponent, restricted to the escapes of the model's alphabet.  *)
(***************************************************************************)
Unescape(hex) == IF hex = <<"2", "f">> THEN <<"/">>
                 ELSE IF hex = <<"2", "e">> THEN <<".">>
                 ELSE <<"%">> \o hex

RECURSIVE decodeURIComponent(_)
decodeURIComponent(str) ==
    Call(LAMBDA s :
           Call(LAMBDA P :
                  IF P = {} THEN s
                  ELSE Call(LAMBDA i :
                              SubSeq(s, 1, i - 1) \o Unescape(SubSeq(s, i + 1, i + 2))
                                  \o decodeURIComponent(SubSeq(s, i + 3, Len(s))),
                            CHOOSE x \in P : \A y \in P : x <= y),
                {i \in 1..Len(s) : s[i] = "%" /\ i + 2 <= Len(s)}),
         str)

(***************************************************************************)
(* Requests the environment may send: a method and a raw request target.   *)
(***************************************************************************)
Methods == {"GET", "HEAD", "POST"}

OgPath == <<"/", "o", "g", ".", "p", "n", "g">>
SitemapPath == <<"/", "s", "i", "t", "e", "m", "a", "p", ".", "x", "m", "l">>
RootPath == <<"/">>
IndexPath == <<"/", "i", "n", "d", "e", "x", ".", "h", "t", "m", "l">>
MissingPath == <<"/", "n", "o", "p", "e">>
OgSlashPath == <<"/", "o", "g", ".", "p", "n", "g", "/">>
SitemapBakPath ==
    <<"/", "s", "i", "t", "e", "m", "a", "p", ".", "x", "m", "l", ".", "b", "a", "k">>
DotDotPath ==
    <<"/", ".", ".", "/", ".", ".", "/", "e", "t", "c", "/", "p", "a", "s", "s", "w", "d">>
EncodedDotDotPath ==
    <<"/", ".", ".", "%", "2", "f", ".", ".", "%", "2", "f", "e", "t", "c", "/",
      "p", "a", "s", "s", "w", "d">>

\* A path of exactly n characters.
LongPath(n) == <<"/">> \o [i \in 1..(n - 1) |-> "a"]

Targets ==
    {OgPath, SitemapPath, RootPath, IndexPath, MissingPath, OgSlashPath, SitemapBakPath,
     DotDotPath, EncodedDotDotPath,
     LongPath(MAX_URI_LENGTH), LongPath(MAX_URI_LENGTH + 1)}

(***************************************************************************)
(* State.                                                                  *)
(***************************************************************************)
\* JavaScript runs one handler at a time: a request executes without
\* interleaving from its arrival, or from the completion of the I/O it awaits,
\* up to its next await of I/O (a fetch, the directory listing) or its
\* response.  satori and Resvg touch no shared state and are run within the
\* segment that follows the font acquisition.
VARIABLES
    req,          \* the request each slot is serving
    cur,          \* the request that is executing (0: the event loop is free)
    fontsCache,   \* let fontsCache: Font[] | null
    assignCount,  \* how often fontsCache has been assigned
    okDone,       \* a /og.png request has been answered with 200
    store,        \* the asset store: path below PUBLIC_DIR -> modification time
    probe         \* argument and result of a function applied on its own

vars == <<req, cur, fontsCache, assignCount, okDone, store, probe>>

\* What no request handler writes.
env == <<store, probe>>

\* The asset store: the files under PUBLIC_DIR, by their path below it.
AboutFile == <<"/", "a", "b", "o", "u", "t", ".", "h", "t", "m", "l">>
BlogIndexFile ==
    <<"/", "b", "l", "o", "g", "/", "i", "n", "d", "e", "x", ".", "h", "t", "m", "l">>
Store == {IndexPath, AboutFile, BlogIndexFile}

\* Modification times, as Date.prototype.toISOString() prints them.
Mtime1 ==
    <<"2", "0", "2", "4", "-", "0", "1", "-", "0", "2", "T", "0", "3", ":", "0", "4", ":", "0", "5", ".", "0", "0", "0", "Z">>
Mtime2 ==
    <<"2", "0", "2", "5", "-", "0", "6", "-", "0", "7", "T", "2", "3", ":", "5", "9", ":", "5", "9", ".", "9", "9", "9", "Z">>

\* Other files an asset store may hold.
StyleFile == <<"/", "s", "t", "y", "l", "e", ".", "c", "s", "s">>
AmpFile == <<"/", "a", "&", "b", ".", "h", "t", "m", "l">>
DeepIndexFile ==
    <<"/", "d", "o", "c", "s", "/", "a", "p", "i", "/", "i", "n", "d", "e", "x", ".", "h", "t", "m", "l">>
Candidates == Store \cup {StyleFile, AmpFile, DeepIndexFile}

\* Every name a listed file may have (<<>>: no file).
NamesOrNone == {Tail(f) : f \in Candidates} \cup {<<>>}

\* Every store made of candidate files.
Stores == UNION {[S -> {Mtime1, Mtime2}] : S \in SUBSET Candidates}

DefaultStore == [f \in Store |-> IF f = IndexPath THEN Mtime2 ELSE Mtime1]

\* The files under PUBLIC_DIR, by absolute path.
Files == {PUBLIC_DIR \o f : f \in DOMAIN store}

NoProbe == [arg |-> <<>>, result |-> <<>>, applied |-> FALSE]

(***************************************************************************)
(* Responses.                                                              *)
(***************************************************************************)
NoBody == [kind |-> "none", text |-> "", file |-> <<>>]
TextBody(t) == [kind |-> "text", text |-> t, file |-> <<>>]
FileBody(f) == [kind |-> "file", text |-> "", file |-> f]
PngBody == [kind |-> "png", text |-> "", file |-> <<>>]
\* The sitemap document, by the <url> elements of its <urlset>.
XmlBody(urlset) == [kind |-> "xml", text |-> "", file |-> <<>>, urlset |-> urlset]

TextPlain == <<"Content-Type", "text/plain; charset=UTF-8">>

\* secureHeaders({...}): the headers the middleware sets on the response.
SecureHeaderSet ==
    {<<"X-Content-Type-Options", "nosniff">>,
     <<"X-Frame-Options", "DENY">>,
     <<"Referrer-Policy", "strict-origin-when-cross-origin">>}

\* Faulty variant: the headers are set on success responses only.
secureHeadersMut(status, headers) ==
    IF status < 400 THEN headers \cup SecureHeaderSet ELSE headers

secureHeaders(status, headers) == headers \cup SecureHeaderSet

\* A HEAD request is dispatched as GET and its response body is dropped.
headBody(method, body) == IF method = "HEAD" THEN NoBody ELSE body

(***************************************************************************)
(* The middleware chain, in registration order, and the router.            *)
(***************************************************************************)
\* Faulty variant: the length gate registered before the method gate.
ChainMut == <<"length", "method", "og", "sitemap", "traversal", "static", "notFound">>

Chain == <<"method", "length", "og", "sitemap", "traversal", "static", "notFound">>

\* Faulty variant: a route matches every path it is a prefix of.
MatchesMut(h, method, pathname) ==
    IF h = "og" THEN method \in {"GET", "HEAD"} /\ startsWith(pathname, OgPath)
    ELSE IF h = "sitemap"
    THEN method \in {"GET", "HEAD"} /\ startsWith(pathname, SitemapPath)
    ELSE TRUE

\* app.use("*", ...) matches everything; app.get(path, ...) matches GET and
\* HEAD requests for exactly that path.
Matches(h, method, pathname) ==
    IF h = "og" THEN method \in {"GET", "HEAD"} /\ pathname = OgPath
    ELSE IF h = "sitemap" THEN method \in {"GET", "HEAD"} /\ pathname = SitemapPath
    ELSE TRUE

\* next(): the first handler registered after position i that matches.
NextHandler(i, method, pathname) ==
    LET J == {j \in (i + 1)..Len(Chain) : Matches(Chain[j], method, pathname)}
    IN  Chain[CHOOSE j \in J : \A k \in J : j <= k]

Position(h) == CHOOSE i \in 1..Len(Chain) : Chain[i] = h

(***************************************************************************)
(* The gates' conditions.                                                  *)
(***************************************************************************)
\* Faulty variant: POST is let through.
MethodAllowedMut(method) == method = "GET" \/ method = "HEAD" \/ method = "POST"

MethodAllowed(method) == method = "GET" \/ method = "HEAD"

\* Faulty variant: >= in place of >.
UriTooLongMut(pathname) == Len(pathname) >= MAX_URI_LENGTH

UriTooLong(pathname) == Len(pathname) > MAX_URI_LENGTH

\* The file path the traversal gate checks.
GateFilePath(pathname) ==
    Call(LAMBDA p : join(PUBLIC_DIR, IF p = <<"/">> THEN IndexPath ELSE p), pathname)

InsidePublicDir(filePath) == startsWith(filePath, PUBLIC_DIR \o sep)

(***************************************************************************)
(* serveStatic({ root: "./public" }): the request path is decoded, a path  *)
(* with a ".." segment is passed on, a directory is served by its          *)
(* index.html, a missing file is passed on.                                *)
(***************************************************************************)
HasDotDot(filename) ==
    Call(LAMBDA segs : \E k \in DOMAIN segs : segs[k] = <<".", ".">>, Split(filename))

\* Faulty variant: a directory is not served by its index.html.
StaticFileMut(pathname) ==
    Call(LAMBDA filename :
           Call(LAMBDA path :
                  IF HasDotDot(filename) THEN <<>>
                  ELSE IF path \in Files THEN path
                  ELSE <<>>,
                join(PUBLIC_DIR, filename)),
         decodeURIComponent(pathname))

StaticFile(pathname) ==
    Call(LAMBDA filename :
           Call(LAMBDA path :
                  LET bare == IF endsWith(path, <<"/">>)
                              THEN SubSeq(path, 1, Len(path) - 1) ELSE path
                      isDir == \E f \in Files : startsWith(f, bare \o <<"/">>)
                      index == bare \o <<"/">> \o IndexName
                  IN  IF HasDotDot(filename) THEN <<>>
                      ELSE IF path \in Files THEN path
                      ELSE IF isDir /\ index \in Files THEN index
                      ELSE <<>>,
                join(PUBLIC_DIR, filename)),
         decodeURIComponent(pathname))

(***************************************************************************)
(* Fonts.                                                                  *)
(***************************************************************************)
Null == <<>>

\* What r.arrayBuffer() yields: the font, or the body of an error response.
Payload(outcome) == IF outcome = "ok" THEN "font" ELSE "errpage"

\* Faulty variant: the value built for the cache is lost.
MakeFontsMut(serifData, sansData) == <<>>

MakeFonts(serifData, sansData) ==
    << [name |-> "Instrument Serif", data |-> Payload(serifData), weight |-> 400,
        style |-> "normal"],
       [name |-> "Instrument Sans", data |-> Payload(sansData), weight |-> 500,
        style |-> "normal"] >>

\* Faulty variant: the cache is never consulted.
CacheHitMut(cache) == FALSE

CacheHit(cache) == cache # Null

\* The stylesheet's body matches /src:\s*url\(([^)]+)\)/ only if it is the
\* stylesheet that was asked for.
UrlMatch(css) == css = "ok"

\* Faulty variant: && in place of ||.
UrlMatchFailedMut(serifCss, sansCss) == ~UrlMatch(serifCss) /\ ~UrlMatch(sansCss)

UrlMatchFailed(serifCss, sansCss) == ~UrlMatch(serifCss) \/ ~UrlMatch(sansCss)

\* satori parses every font it is given.
FontsUsable(fonts) == fonts # <<>> /\ \A i \in DOMAIN fonts : fonts[i].data = "font"

CssOutcomes == {"ok", "shape", "http", "neterr"}
DataOutcomes == {"ok", "http", "neterr"}

(***************************************************************************)
(* Requests in progress.                                                   *)
(***************************************************************************)
Reqs == 1..MaxReqs

IdleReq ==
    [pc |-> "idle", method |-> "", target |-> <<>>, pathname |-> <<>>, trace |-> <<>>,
     status |-> 0, headers |-> {}, body |-> NoBody, responder |-> "",
     responses |-> 0,
     serifCss |-> "", sansCss |-> "", serifData |-> "", sansData |-> "",
     fonts |-> Null, fetches |-> 0, assigned |-> FALSE,
     afterOk |-> FALSE, startedPopulated |-> FALSE, error |-> ""]

\* new URL(c.req.url).pathname, parsed from the request target on arrival.
Pathname(q) == q.pathname

Init ==
    /\ req = [r \in Reqs |-> IdleReq]
    /\ cur = 0
    /\ fontsCache = Null
    /\ assignCount = 0
    /\ okDone = FALSE
    /\ store = DefaultStore
    /\ probe = NoProbe

\* The handler h of request q runs.
Enter(q, h) == [q EXCEPT !.trace = Append(@, h)]

\* A handler returns a Response: nothing after it in the chain runs.
Respond(q, h, status, body, headers) ==
    [q EXCEPT !.status = status, !.body = body, !.headers = headers,
              !.responder = h, !.responses = @ + 1, !.pc = "headers"]

\* A handler calls next().
PassOn(q, h) == [q EXCEPT !.pc = NextHandler(Position(h), q.method, Pathname(q))]

(***************************************************************************)
(* A request arrives (app.fetch) and enters the chain.                     *)
(***************************************************************************)
Arrive(r, m, t) ==
    /\ cur = 0
    /\ req[r].pc = "idle"
    /\ \A s \in Reqs : s < r => req[s].pc # "idle"
    /\ req' = [req EXCEPT ![r] =
                  [IdleReq EXCEPT !.pc = NextHandler(0, m, UrlPathname(t)),
                                  !.method = m, !.target = t,
                                  !.pathname = UrlPathname(t)]]
    /\ cur' = r
    /\ UNCHANGED <<fontsCache, assignCount, okDone>>
    /\ UNCHANGED env

methodGate(r) ==
    /\ cur = r
    /\ req[r].pc = "method"
    /\ LET q == Enter(req[r], "method")
       IN  req' = [req EXCEPT ![r] =
                IF ~MethodAllowed(q.method)
                THEN Respond(q, "method", 405, TextBody("Method Not Allowed"),
                             {TextPlain, <<"Allow", "GET, HEAD">>})
                ELSE PassOn(q, "method")]
    /\ UNCHANGED <<cur, fontsCache, assignCount, okDone>>
    /\ UNCHANGED env

lengthGate(r) ==
    /\ cur = r
    /\ req[r].pc = "length"
    /\ LET q == Enter(req[r], "length")
       IN  req' = [req EXCEPT ![r] =
                IF UriTooLong(Pathname(q))
                THEN Respond(q, "length", 414, TextBody("URI Too Long"), {TextPlain})
                ELSE PassOn(q, "length")]
    /\ UNCHANGED <<cur, fontsCache, assignCount, okDone>>
    /\ UNCHANGED env

traversalGate(r) ==
    /\ cur = r
    /\ req[r].pc = "traversal"
    /\ LET q == Enter(req[r], "traversal")
       IN  req' = [req EXCEPT ![r] =
                IF ~InsidePublicDir(GateFilePath(Pathname(q)))
                THEN Respond(q, "traversal", 403, TextBody("Forbidden"), {TextPlain})
                ELSE PassOn(q, "traversal")]
    /\ UNCHANGED <<cur, fontsCache, assignCount, okDone>>
    /\ UNCHANGED env

staticHandler(r) ==
    /\ cur = r
    /\ req[r].pc = "static"
    /\ LET q == Enter(req[r], "static")
           f == StaticFile(Pathname(q))
       IN  req' = [req EXCEPT ![r] =
                IF f # <<>>
                THEN Respond(q, "static", 200, FileBody(f),
                             {<<"Content-Type", "text/html; charset=utf-8">>})
                ELSE PassOn(q, "static")]
    /\ UNCHANGED <<cur, fontsCache, assignCount, okDone>>
    /\ UNCHANGED env

notFound(r) ==
    /\ cur = r
    /\ req[r].pc = "notFound"
    /\ req' = [req EXCEPT ![r] =
            Respond(Enter(req[r], "notFound"), "notFound", 404, TextBody("Not Found"),
                    {TextPlain})]
    /\ UNCHANGED <<cur, fontsCache, assignCount, okDone>>
    /\ UNCHANGED env

(***************************************************************************)
(* GET /og.png: generateOgImage -> loadFonts.  A cache hit returns the     *)
(* cached fonts; a miss issues the first stylesheet fetch and suspends.    *)
(***************************************************************************)
\* An error is thrown inside a handler's try block.
Throw(q, err) == [q EXCEPT !.error = err]

FetchFailedMsg == "fetch failed"
NoFontUrlMsg == "Could not extract font URLs from Google Fonts CSS"

\* Faulty variant: the catch neither responds nor rethrows.
Fail500Hang(q, h) == [q EXCEPT !.pc = "hung"]

\* Faulty variant: the text of the error is sent to the client.
Fail500Mut(q, h) == Respond(q, h, 500, TextBody(q.error), {TextPlain})

\* The handler's catch: the error is logged, the client gets a plain 500.
Fail500(q, h) == Respond(q, h, 500, TextBody("Internal Server Error"), {TextPlain})

ogHandler(r) ==
    /\ cur = r
    /\ req[r].pc = "og"
    /\ LET q == [Enter(req[r], "og") EXCEPT !.afterOk = okDone,
                                             !.startedPopulated = (fontsCache # Null)]
       IN  IF CacheHit(fontsCache)
           THEN /\ req' = [req EXCEPT ![r] = [q EXCEPT !.fonts = fontsCache, !.pc = "satori"]]
                /\ cur' = cur
           ELSE /\ req' = [req EXCEPT ![r] =
                        [q EXCEPT !.serifCss = "pending", !.fetches = @ + 1,
                                  !.pc = "awaitSerifCss"]]
                /\ cur' = 0
    /\ UNCHANGED <<fontsCache, assignCount, okDone>>
    /\ UNCHANGED env

\* The serif stylesheet fetch settles; the sans stylesheet fetch is issued.
serifCssResponse(r, outcome) ==
    /\ cur = 0
    /\ req[r].pc = "awaitSerifCss"
    /\ LET q == [req[r] EXCEPT !.serifCss = outcome]
       IN  IF outcome = "neterr"
           THEN /\ req' = [req EXCEPT ![r] = Fail500(Throw(q, FetchFailedMsg), "og")]
                /\ cur' = r
           ELSE /\ req' = [req EXCEPT ![r] =
                        [q EXCEPT !.sansCss = "pending", !.fetches = @ + 1,
                                  !.pc = "awaitSansCss"]]
                /\ cur' = 0
    /\ UNCHANGED <<fontsCache, assignCount, okDone>>
    /\ UNCHANGED env

\* The sans stylesheet fetch settles; both bodies are read and matched, and
\* the two font fetches are issued together.
sansCssResponse(r, outcome) ==
    /\ cur = 0
    /\ req[r].pc = "awaitSansCss"
    /\ LET q == [req[r] EXCEPT !.sansCss = outcome]
       IN  IF outcome = "neterr" \/ UrlMatchFailed(q.serifCss, q.sansCss)
           THEN /\ req' = [req EXCEPT ![r] =
                        Fail500(Throw(q, IF outcome = "neterr" THEN FetchFailedMsg
                                         ELSE NoFontUrlMsg), "og")]
                /\ cur' = r
           ELSE /\ req' = [req EXCEPT ![r] =
                        [q EXCEPT !.serifData = "pending", !.sansData = "pending",
                                  !.fetches = @ + 2, !.pc = "awaitFonts"]]
                /\ cur' = 0
    /\ UNCHANGED <<fontsCache, assignCount, okDone>>
    /\ UNCHANGED env

\* One of the two font fetches settles.  Promise.all rejects with the first
\* rejection; when both are fulfilled fontsCache is assigned.
fontDataResponse(r, serif, outcome) ==
    /\ cur = 0
    /\ req[r].pc = "awaitFonts"
    /\ IF serif THEN req[r].serifData = "pending" ELSE req[r].sansData = "pending"
    /\ LET q == IF serif THEN [req[r] EXCEPT !.serifData = outcome]
                ELSE [req[r] EXCEPT !.sansData = outcome]
       IN  IF outcome = "neterr"
           THEN /\ req' = [req EXCEPT ![r] = Fail500(Throw(q, FetchFailedMsg), "og")]
                /\ cur' = r
                /\ UNCHANGED <<fontsCache, assignCount>>
           ELSE IF q.serifData = "pending" \/ q.sansData = "pending"
           THEN /\ req' = [req EXCEPT ![r] = q]
                /\ cur' = 0
                /\ UNCHANGED <<fontsCache, assignCount>>
           ELSE /\ fontsCache' = MakeFonts(q.serifData, q.sansData)
                /\ assignCount' = assignCount + 1
                /\ req' = [req EXCEPT ![r] =
                        [q EXCEPT !.assigned = TRUE, !.fonts = fontsCache',
                                  !.pc = "satori"]]
                /\ cur' = r
    /\ UNCHANGED okDone
    /\ UNCHANGED env

\* satori(...): the layout is rendered to SVG with the fonts.
satoriStep(r, ok) ==
    /\ cur = r
    /\ req[r].pc = "satori"
    /\ ok => FontsUsable(req[r].fonts)
    /\ req' = [req EXCEPT ![r] =
            IF ok THEN [@ EXCEPT !.pc = "resvg"]
            ELSE Fail500(Throw(@, "satori failed"), "og")]
    /\ UNCHANGED <<cur, fontsCache, assignCount, okDone>>
    /\ UNCHANGED env

\* new Resvg(svg).render().asPng(), then the handler's response.
resvgStep(r, ok) ==
    /\ cur = r
    /\ req[r].pc = "resvg"
    /\ req' = [req EXCEPT ![r] =
            IF ok
            THEN Respond(@, "og", 200, PngBody,
                         {<<"Content-Type", "image/png">>,
                          <<"Cache-Control", "public, max-age=86400">>})
            ELSE Fail500(Throw(@, "resvg failed"), "og")]
    /\ UNCHANGED <<cur, fontsCache, assignCount, okDone>>
    /\ UNCHANGED env

(***************************************************************************)
(* GET /sitemap.xml: the store is listed and each .html file is stat-ed.   *)
(***************************************************************************)
\* str.replace(/c/g, entity)
RECURSIVE ReplaceAll(_, _, _)
ReplaceAll(str, c, entity) ==
    Call(LAMBDA s :
           IF s = <<>> THEN <<>>
           ELSE (IF Head(s) = c THEN entity ELSE <<Head(s)>>)
                    \o ReplaceAll(Tail(s), c, entity),
         str)

AmpEntity == <<"&", "a", "m", "p", ";">>
LtEntity == <<"&", "l", "t", ";">>
GtEntity == <<"&", "g", "t", ";">>
QuotEntity == <<"&", "q", "u", "o", "t", ";">>
AposEntity == <<"&", "a", "p", "o", "s", ";">>

\* Faulty variant: "&" is replaced last, so the entities are escaped again.
escapeXmlMut(str) ==
    ReplaceAll(ReplaceAll(ReplaceAll(ReplaceAll(ReplaceAll(str,
        "<", LtEntity), ">", GtEntity), "\"", QuotEntity), "'", AposEntity), "&", AmpEntity)

escapeXml(str) ==
    ReplaceAll(ReplaceAll(ReplaceAll(ReplaceAll(ReplaceAll(str,
        "&", AmpEntity), "<", LtEntity), ">", GtEntity), "\"", QuotEntity), "'", AposEntity)

\* `${url.protocol}//${url.host}` of the request.
BaseUrl == <<"h", "t", "t", "p", ":", "/", "/", "l", "o", "c", "a", "l", "h", "o", "s", "t", ":", "3", "0", "0", "0">>

DotHtml == <<".", "h", "t", "m", "l">>
SlashIndexHtml == <<"/">> \o IndexName

\* readdir(PUBLIC_DIR, { recursive: true }): the files and directories below
\* PUBLIC_DIR, by their path relative to it.
Ancestors(f) ==
    Call(LAMBDA segs : {JoinSegs(SubSeq(segs, 1, k)) : k \in 1..(Len(segs) - 1)}, Split(f))

readdir(st) == {Tail(f) : f \in DOMAIN st \cup UNION {Ancestors(g) : g \in DOMAIN st}}

htmlFiles(files) == {f \in files : endsWith(f, DotHtml)}

\* (await stat(join(PUBLIC_DIR, f))).mtime.toISOString()
statMtime(st, f) ==
    Call(LAMBDA filePath : st[SubSeq(filePath, Len(PUBLIC_DIR) + 1, Len(filePath))],
         join(PUBLIC_DIR, f))

\* iso.split("T")[0]
SplitT0(iso) ==
    LET P == {i \in 1..Len(iso) : iso[i] = "T"}
    IN  IF P = {} THEN iso
        ELSE SubSeq(iso, 1, (CHOOSE i \in P : \A j \in P : i <= j) - 1)

\* Faulty variant: only the ".html" suffix is stripped.
urlPathMut(normalized) == <<"/">> \o SubSeq(normalized, 1, Len(normalized) - Len(DotHtml))

urlPath(normalized) ==
    IF normalized = IndexName THEN <<"/">>
    ELSE IF endsWith(normalized, SlashIndexHtml)
    THEN <<"/">> \o SubSeq(normalized, 1, Len(normalized) - Len(SlashIndexHtml)) \o <<"/">>
    ELSE <<"/">> \o SubSeq(normalized, 1, Len(normalized) - Len(DotHtml))

\* The <url> element of one .html file.
sitemapEntry(st, f) ==
    Call(LAMBDA normalized :
           Call(LAMBDA path :
                  [loc |-> escapeXml(BaseUrl \o path),
                   lastmod |-> SplitT0(statMtime(st, f)),
                   changefreq |-> "monthly",
                   priority |-> IF path = <<"/">> THEN "1.0" ELSE "0.8"],
                urlPath(normalized)),
         [i \in DOMAIN f |-> IF f[i] = "\\" THEN "/" ELSE f[i]])

\* The listing as an array; the order of the array is the order of the entries.
RECURSIVE ToArray(_)
ToArray(files) ==
    Call(LAMBDA S :
           IF S = {} THEN <<>>
           ELSE Call(LAMBDA x : <<x>> \o ToArray(S \ {x}), CHOOSE y \in S : TRUE),
         files)

sitemapEntries(st) ==
    Call(LAMBDA files : [i \in DOMAIN files |-> sitemapEntry(st, files[i])],
         ToArray(htmlFiles(readdir(st))))

sitemapHandler(r) ==
    /\ cur = r
    /\ req[r].pc = "sitemap"
    /\ req' = [req EXCEPT ![r] = [Enter(@, "sitemap") EXCEPT !.pc = "awaitReaddir"]]
    /\ cur' = 0
    /\ UNCHANGED <<fontsCache, assignCount, okDone>>
    /\ UNCHANGED env

\* Faulty variant: a file whose stat rejects is left out of the document.
sitemapDoneMut(r, listed, failing) ==
    /\ cur = 0
    /\ req[r].pc = "awaitReaddir"
    /\ failing \in htmlFiles(readdir(store)) \cup {<<>>}
    /\ ~listed => failing = <<>>
    /\ req' = [req EXCEPT ![r] =
            IF ~listed THEN Fail500(Throw(@, "readdir failed"), "sitemap")
            ELSE LET files == ToArray(htmlFiles(readdir(store)) \ {failing})
                 IN  Respond(IF failing # <<>> THEN Throw(@, "stat failed") ELSE @,
                             "sitemap", 200,
                             XmlBody([i \in DOMAIN files |-> sitemapEntry(store, files[i])]),
                             {<<"Content-Type", "application/xml">>,
                              <<"Cache-Control", "public, max-age=86400">>})]
    /\ cur' = r
    /\ UNCHANGED <<fontsCache, assignCount, okDone>>
    /\ UNCHANGED env

\* The listing and the stats settle: readdir rejects (listed is FALSE), or
\* the stat of the listed .html file `failing` rejects first (Promise.all
\* rejects), or no stat fails (failing is <<>>) and the document is built and
\* returned.
sitemapDone(r, listed, failing) ==
    /\ cur = 0
    /\ req[r].pc = "awaitReaddir"
    /\ failing \in htmlFiles(readdir(store)) \cup {<<>>}
    /\ ~listed => failing = <<>>
    /\ req' = [req EXCEPT ![r] =
            IF ~listed THEN Fail500(Throw(@, "readdir failed"), "sitemap")
            ELSE IF failing # <<>> THEN Fail500(Throw(@, "stat failed"), "sitemap")
            ELSE Respond(@, "sitemap", 200, XmlBody(sitemapEntries(store)),
                         {<<"Content-Type", "application/xml">>,
                          <<"Cache-Control", "public, max-age=86400">>})]
    /\ cur' = r
    /\ UNCHANGED <<fontsCache, assignCount, okDone>>
    /\ UNCHANGED env

(***************************************************************************)
(* The response travels back through secureHeaders and is sent.            *)
(***************************************************************************)
sendResponse(r) ==
    /\ cur = r
    /\ req[r].pc = "headers"
    /\ LET q == req[r]
       IN  req' = [req EXCEPT ![r] =
                [q EXCEPT !.headers = secureHeaders(q.status, q.headers),
                          !.body = headBody(q.method, q.body),
                          !.pc = "done"]]
    /\ okDone' = (okDone \/ (req[r].responder = "og" /\ req[r].status = 200))
    /\ UNCHANGED <<cur, fontsCache, assignCount>>
    /\ UNCHANGED env

\* The request is over; its slot serves the next one.
Finish(r) ==
    /\ cur = r
    /\ req[r].pc = "done"
    /\ req' = [req EXCEPT ![r] = IdleReq]
    /\ cur' = 0
    /\ UNCHANGED <<fontsCache, assignCount, okDone>>
    /\ UNCHANGED env

Next ==
    \E r \in Reqs :
        \/ \E m \in Methods, t \in Targets : Arrive(r, m, t)
        \/ methodGate(r)
        \/ lengthGate(r)
        \/ ogHandler(r)
        \/ \E o \in CssOutcomes : serifCssResponse(r, o)
        \/ \E o \in CssOutcomes : sansCssResponse(r, o)
        \/ \E s \in BOOLEAN, o \in DataOutcomes : fontDataResponse(r, s, o)
        \/ \E ok \in BOOLEAN : satoriStep(r, ok)
        \/ \E ok \in BOOLEAN : resvgStep(r, ok)
        \/ sitemapHandler(r)
        \/ \E listed \in BOOLEAN, failing \in NamesOrNone :
               sitemapDone(r, listed, failing)
        \/ traversalGate(r)
        \/ staticHandler(r)
        \/ notFound(r)
        \/ sendResponse(r)
        \/ Finish(r)

Spec == Init /\ [][Next]_vars

(***************************************************************************)
(* Scheduling.  A handler that holds the event loop runs on to its next    *)
(* await or to the end of the request (weak fairness of its steps).  The   *)
(* completion of I/O a request waits for is delivered when the event loop  *)
(* is free, which it is again and again; that every started fetch and read *)
(* completes is therefore strong fairness of the completion steps.         *)
(***************************************************************************)
HandlerStep(r) ==
    \/ methodGate(r)
    \/ lengthGate(r)
    \/ ogHandler(r)
    \/ \E ok \in BOOLEAN : satoriStep(r, ok)
    \/ \E ok \in BOOLEAN : resvgStep(r, ok)
    \/ sitemapHandler(r)
    \/ traversalGate(r)
    \/ staticHandler(r)
    \/ notFound(r)
    \/ sendResponse(r)
    \/ Finish(r)

Completion(r) ==
    \/ \E o \in CssOutcomes : serifCssResponse(r, o)
    \/ \E o \in CssOutcomes : sansCssResponse(r, o)
    \/ \E s \in BOOLEAN, o \in DataOutcomes : fontDataResponse(r, s, o)
    \/ \E listed \in BOOLEAN, failing \in NamesOrNone :
           sitemapDone(r, listed, failing)

Fairness == \A r \in Reqs : WF_vars(HandlerStep(r)) /\ SF_vars(Completion(r))

SpecLive == Init /\ [][Next]_vars /\ Fairness

(***************************************************************************)
(* The same handlers over every asset store: one request at a time for     *)
(* /, /index.html or /sitemap.xml.                                         *)
(***************************************************************************)
InitAssets ==
    /\ req = [r \in Reqs |-> IdleReq]
    /\ cur = 0
    /\ fontsCache = Null
    /\ assignCount = 0
    /\ okDone = FALSE
    /\ store \in Stores
    /\ probe = NoProbe

NextAssets ==
    \/ \E m \in {"GET", "HEAD"}, t \in {RootPath, IndexPath, SitemapPath} : Arrive(1, m, t)
    \/ methodGate(1)
    \/ lengthGate(1)
    \/ sitemapHandler(1)
    \/ \E listed \in BOOLEAN, failing \in NamesOrNone :
           sitemapDone(1, listed, failing)
    \/ traversalGate(1)
    \/ staticHandler(1)
    \/ notFound(1)
    \/ sendResponse(1)
    \/ Finish(1)

SpecAssets == InitAssets /\ [][NextAssets]_vars

(***************************************************************************)
(* escapeXml applied to every string of up to MaxLen characters over the   *)
(* five special characters and two ordinary ones.                          *)
(***************************************************************************)
Alphabet == {"&", "<", ">", "\"", "'", "a", ";"}

Strings == UNION {[1..n -> Alphabet] : n \in 0..MaxLen}

InitEscape ==
    /\ req = [r \in Reqs |-> IdleReq]
    /\ cur = 0
    /\ fontsCache = Null
    /\ assignCount = 0
    /\ okDone = FALSE
    /\ store = DefaultStore
    /\ probe \in {[arg |-> str, result |-> <<>>, applied |-> FALSE] : str \in Strings}

applyEscapeXml ==
    /\ ~probe.applied
    /\ probe' = [probe EXCEPT !.result = escapeXml(probe.arg), !.applied = TRUE]
    /\ UNCHANGED <<req, cur, fontsCache, assignCount, okDone, store>>

NextEscape == applyEscapeXml

SpecEscape == InitEscape /\ [][NextEscape]_vars

(***************************************************************************)
(* Properties.                                                             *)
(***************************************************************************)
Range(f) == {f[i] : i \in DOMAIN f}

GetOrHead(q) == q.method \in {"GET", "HEAD"}

\* C1: every response that is produced carries X-Content-Type-Options:
\* nosniff, X-Frame-Options: DENY and Referrer-Policy:
\* strict-origin-when-cross-origin, whichever handler produced it.
C1_SecurityHeaders ==
    \A r \in Reqs :
        req[r].pc = "done" =>
            /\ <<"X-Content-Type-Options", "nosniff">> \in req[r].headers
            /\ <<"X-Frame-Options", "DENY">> \in req[r].headers
            /\ <<"Referrer-Policy", "strict-origin-when-cross-origin">> \in req[r].headers

C1_Witness ==
    \E r \in Reqs :
        /\ req[r].pc = "done"
        /\ req[r].status = 500
        /\ <<"X-Frame-Options", "DENY">> \in req[r].headers

\* C2: a request whose method is neither GET nor HEAD gets 405 with
\* Allow: GET, HEAD and the body "Method Not Allowed" on any path; no handler
\* after the method gate runs for it and it neither fetches fonts nor
\* assigns the font cache.
C2_MethodGate ==
    \A r \in Reqs :
        LET q == req[r]
        IN  (q.pc # "idle" /\ ~GetOrHead(q)) =>
                /\ Range(q.trace) \subseteq {"method"}
                /\ q.pc \in {"method", "headers", "done"}
                /\ q.fetches = 0 /\ ~q.assigned /\ q.fonts = <<>>
                /\ q.pc \in {"headers", "done"} =>
                      /\ q.status = 405
                      /\ q.responses = 1
                      /\ q.body = [kind |-> "text", text |-> "Method Not Allowed", file |-> <<>>]
                /\ q.pc = "done" => <<"Allow", "GET, HEAD">> \in q.headers

C2_Witness ==
    \E r \in Reqs :
        /\ req[r].pc = "done"
        /\ req[r].method = "POST"
        /\ req[r].target = OgPath
        /\ req[r].status = 405

\* C3: a GET or HEAD request is answered 414 exactly when the path of its URL
\* is longer than 2048 characters: 2049 characters give 414, 2048 do not.
C3_UriLength ==
    \A r \in Reqs :
        LET q == req[r]
        IN  (q.pc = "done" /\ GetOrHead(q)) =>
                /\ (q.status = 414) <=> (Len(Pathname(q)) > 2048)
                /\ (q.responder = "length") <=> (Len(Pathname(q)) > 2048)

C3_Witness ==
    \E r \in Reqs :
        /\ req[r].pc = "done"
        /\ GetOrHead(req[r])
        /\ Len(Pathname(req[r])) = 2049
        /\ req[r].status = 414

\* C4: the handlers of a request run in the order method gate, length gate,
\* route (/og.png or /sitemap.xml), traversal gate, static handler, 404
\* fallback; each runs only when the one before it passed control on, the
\* handler that returns the response is the last one to run, and a request
\* gets exactly one response.
C4_Before(h) ==
    IF h = "method" THEN ""
    ELSE IF h = "length" THEN "method"
    ELSE IF h \in {"og", "sitemap", "traversal"} THEN "length"
    ELSE IF h = "static" THEN "traversal"
    ELSE IF h = "notFound" THEN "static"
    ELSE "none"

C4_GateOrder ==
    \A r \in Reqs :
        LET q == req[r]
            t == q.trace
            last == IF t = <<>> THEN "" ELSE t[Len(t)]
        IN  /\ \A i \in DOMAIN t :
                  C4_Before(t[i]) = (IF i = 1 THEN "" ELSE t[i - 1])
            /\ q.pc \in {"method", "length", "og", "sitemap", "traversal", "static",
                         "notFound"} => (C4_Before(q.pc) = last /\ q.responses = 0)
            /\ q.responses <= 1
            /\ q.responses = 1 => (t # <<>> /\ q.responder = last)
            /\ q.pc \in {"headers", "done"} => q.responses = 1

C4_Witness ==
    \E r \in Reqs :
        /\ req[r].pc = "done"
        /\ req[r].trace = <<"method", "length", "traversal", "static", "notFound">>
        /\ req[r].status = 404
        /\ req[r].responses = 1

\* C5: a GET or HEAD request of at most 2048 characters whose requested path,
\* decoded and resolved against the asset-store root, lies outside the root
\* is answered 403 by the traversal gate, and the static handler does not
\* run for it.
C5_ResolvesOutside(target) ==
    ~startsWith(join(PUBLIC_DIR, decodeURIComponent(target)), PUBLIC_DIR \o <<"/">>)

C5_TraversalForbidden ==
    \A r \in Reqs :
        LET q == req[r]
        IN  (GetOrHead(q) /\ Len(q.target) <= 2048 /\ C5_ResolvesOutside(q.target)) =>
                /\ "static" \notin Range(q.trace)
                /\ q.pc = "done" => q.status = 403

\* C6: when a fetch of a font acquisition fails (a stylesheet fetch or a
\* font fetch, by a transport failure or a non-success response), the
\* request gets a 500 and does not populate the font cache.
C6_FetchFailed(q) ==
    {q.serifCss, q.sansCss, q.serifData, q.sansData} \cap {"http", "neterr"} # {}

C6_FailedFetchLeavesCacheEmpty ==
    \A r \in Reqs :
        LET q == req[r]
        IN  C6_FetchFailed(q) =>
                /\ ~q.assigned
                /\ q.pc \notin {"satori", "resvg"}
                /\ q.pc \in {"headers", "done"} => q.status = 500

C8_BothOrNone(fonts) ==
    \/ fonts = <<>>
    \/ /\ Len(fonts) = 2
       /\ fonts[1].name = "Instrument Serif" /\ fonts[1].weight = 400
       /\ fonts[2].name = "Instrument Sans" /\ fonts[2].weight = 500

C8_AtomicAssignment ==
    /\ C8_BothOrNone(fontsCache)
    /\ \A r \in Reqs :
           /\ C8_BothOrNone(req[r].fonts)
           /\ req[r].assigned => (req[r].serifData = "ok" /\ req[r].sansData = "ok")

\* C9 (as claimed): once a /og.png request has been answered 200 the number
\* of outbound font fetches does not increase any more.
C9_NoFetchAfterSuccess ==
    [][okDone => \A r \in Reqs : req'[r].fetches <= req[r].fetches]_vars

\* C9 (amended): a /og.png request that starts after a /og.png request has
\* been answered 200 performs no outbound font fetch (fetches of acquisitions
\* that were already in flight may still follow).
C9_LaterRequestsFetchNothing ==
    \A r \in Reqs :
        req[r].afterOk =>
            /\ req[r].fetches = 0
            /\ req[r].pc \notin {"awaitSerifCss", "awaitSansCss", "awaitFonts"}
            /\ ~req[r].assigned

C9_Witness ==
    \E r \in Reqs :
        /\ req[r].afterOk
        /\ req[r].pc = "done"
        /\ req[r].status = 200
        /\ req[r].responder = "og"
        /\ req[r].fetches = 0

\* C10: on a cache miss, when the src: url(...) pattern matches in neither or
\* only one of the two stylesheet bodies, loadFonts throws: no font fetch is
\* issued, the request does not assign the font cache (an empty cache stays
\* empty) and the request is answered 500.
C10_NoMatch(css) == css \in {"shape", "http"}

C10_MismatchFails ==
    /\ assignCount = 0 => fontsCache = <<>>
    /\ \A r \in Reqs :
           LET q == req[r]
           IN  (q.sansCss \in {"ok", "shape", "http"}
                   /\ (C10_NoMatch(q.serifCss) \/ C10_NoMatch(q.sansCss))) =>
                   /\ q.fetches = 2
                   /\ q.serifData = "" /\ q.sansData = ""
                   /\ ~q.assigned /\ q.fonts = <<>>
                   /\ q.pc \in {"headers", "done"}
                   /\ q.status = 500

C10_Witness ==
    \E r \in Reqs :
        /\ req[r].pc = "done"
        /\ req[r].serifCss = "ok"
        /\ req[r].sansCss = "shape"
        /\ req[r].status = 500
        /\ fontsCache = <<>>

\* C11: a GET or HEAD request for /og.png is answered in one of two ways
\* only: 200 with Content-Type image/png and Cache-Control public,
\* max-age=86400 when no stage (fonts, satori, Resvg) has thrown, or 500 with
\* the fixed body "Internal Server Error" when a stage has thrown; the 500
\* body is never the text of the error.  (The response to HEAD has the same
\* status and headers; its body is dropped when it is sent.)
C11_Sent(q, body) == IF q.pc = "done" THEN headBody(q.method, body) ELSE body

C11_OgResponse ==
    \A r \in Reqs :
        LET q == req[r]
        IN  (q.pc \in {"headers", "done"} /\ "og" \in Range(q.trace)) =>
                /\ q.responder = "og"
                /\ q.responses = 1
                /\ \/ /\ q.status = 200
                      /\ q.error = ""
                      /\ {h \in q.headers : h[1] = "Content-Type"}
                             = {<<"Content-Type", "image/png">>}
                      /\ <<"Cache-Control", "public, max-age=86400">> \in q.headers
                      /\ q.body = C11_Sent(q, PngBody)
                   \/ /\ q.status = 500
                      /\ q.error # ""
                      /\ q.body.text # q.error
                      /\ q.body = C11_Sent(q, TextBody("Internal Server Error"))

C11_Witness ==
    \E r \in Reqs :
        /\ req[r].pc = "done" /\ req[r].responder = "og" /\ req[r].method = "GET"
        /\ req[r].status = 500 /\ req[r].error = "resvg failed"
        /\ req[r].body.text = "Internal Server Error"

\* C12: for a GET or HEAD request whose path has at most 2048 characters,
\* the path /og.png runs the image handler and the path /sitemap.xml runs the
\* sitemap handler, and neither reaches the traversal gate or the static
\* handler; every other path (/og.png/, /sitemap.xml.bak, ...) runs neither
\* of the two handlers and goes on to the traversal gate.
C12_OgStages == {"og", "awaitSerifCss", "awaitSansCss", "awaitFonts", "satori", "resvg"}

C12_SitemapStages == {"sitemap", "awaitReaddir"}

C13_Path(f) ==
    IF f = IndexPath THEN <<"/">>
    ELSE IF endsWith(f, <<"/">> \o IndexName) THEN SubSeq(f, 1, Len(f) - Len(IndexName))
    ELSE SubSeq(f, 1, Len(f) - 5)

C13_Entry(st, f) ==
    [loc |-> escapeXml(BaseUrl \o C13_Path(f)),
     lastmod |-> SubSeq(st[f], 1, 10),
     changefreq |-> "monthly",
     priority |-> IF C13_Path(f) = <<"/">> THEN "1.0" ELSE "0.8"]

C13_SitemapEntries ==
    \A r \in Reqs :
        LET q == req[r]
            H == {f \in DOMAIN store : endsWith(f, <<".", "h", "t", "m", "l">>)}
        IN  (q.responder = "sitemap" /\ q.status = 200 /\ q.body.kind = "xml") =>
                LET U == q.body.urlset
                IN  /\ Len(U) = Cardinality(H)
                    /\ \A f \in H : Cardinality({i \in DOMAIN U : U[i] = C13_Entry(store, f)}) = 1
                    /\ DOMAIN store = Store =>
                          {U[i].loc : i \in DOMAIN U}
                              = {BaseUrl \o <<"/">>,
                                 BaseUrl \o <<"/", "a", "b", "o", "u", "t">>,
                                 BaseUrl \o <<"/", "b", "l", "o", "g", "/">>}

C13_Witness ==
    \E r \in Reqs :
        /\ req[r].pc = "done" /\ req[r].responder = "sitemap" /\ req[r].status = 200
        /\ req[r].body.kind = "xml"
        /\ DOMAIN store = Candidates
        /\ store[IndexPath] # store[BlogIndexFile]
        /\ Len(req[r].body.urlset) = 5

\* C14: escapeXml replaces every &, <, >, " and ' of its input by &amp;,
\* &lt;, &gt;, &quot; and &apos; and leaves every other character as it is:
\* the output has no raw <, >, " or ', every & of the output begins one of
\* the five entities, and the & of an entity is not escaped a second time.
C14_Entity(c) ==
    IF c = "&" THEN <<"&", "a", "m", "p", ";">>
    ELSE IF c = "<" THEN <<"&", "l", "t", ";">>
    ELSE IF c = ">" THEN <<"&", "g", "t", ";">>
    ELSE IF c = "\"" THEN <<"&", "q", "u", "o", "t", ";">>
    ELSE IF c = "'" THEN <<"&", "a", "p", "o", "s", ";">>
    ELSE <<c>>

RECURSIVE C14_Escaped(_)
C14_Escaped(str) ==
    IF str = <<>> THEN <<>> ELSE C14_Entity(Head(str)) \o C14_Escaped(Tail(str))

C14_EscapeXml ==
    probe.applied =>
        LET out == probe.result
        IN  /\ out = C14_Escaped(probe.arg)
            /\ \A i \in DOMAIN out : out[i] \notin {"<", ">", "\"", "'"}
            /\ \A i \in DOMAIN out :
                   out[i] = "&" =>
                       \E c \in {"&", "<", ">", "\"", "'"} :
                           startsWith(SubSeq(out, i, Len(out)), C14_Entity(c))

C14_Witness ==
    /\ probe.applied
    /\ probe.arg = <<"&", "<", ";">>
    /\ probe.result = <<"&", "a", "m", "p", ";", "&", "l", "t", ";", ";">>

\* C15: for GET and HEAD the paths / and /index.html resolve to the same
\* asset: the traversal gate checks the file path of index.html for both and
\* lets both pass, and the static handler answers both with 200 and the
\* bytes of index.html when that file exists, and both get 404 when it does
\* not.
C15_IndexFile == PUBLIC_DIR \o <<"/">> \o IndexName

C15_RootIsIndex ==
    \A r \in Reqs :
        LET q == req[r]
        IN  (GetOrHead(q) /\ q.target \in {RootPath, IndexPath}) =>
                /\ GateFilePath(Pathname(q)) = C15_IndexFile
                /\ q.pc \in {"headers", "done"} =>
                      /\ SubSeq(q.trace, 1, 4) = <<"method", "length", "traversal", "static">>
                      /\ IF C15_IndexFile \in Files
                         THEN /\ q.status = 200
                              /\ q.responder = "static"
                              /\ q.method = "GET" => q.body = FileBody(C15_IndexFile)
                         ELSE /\ q.status = 404
                              /\ q.responder = "notFound"

C15_Witness ==
    \E r \in Reqs :
        /\ req[r].pc = "done" /\ req[r].method = "GET" /\ req[r].target = RootPath
        /\ req[r].status = 200 /\ req[r].body = FileBody(C15_IndexFile)
        /\ AboutFile \in DOMAIN store

\* C16: when the discovery of the sitemap fails, because the recursive
\* listing fails or because reading the modification time of one of the
\* listed .html files fails, the response is 500 with the body "Internal
\* Server Error" and no sitemap, not even a partial one, is sent; when it
\* succeeds the response is 200 with Content-Type application/xml and
\* Cache-Control public, max-age=86400.
C16_SitemapResponse ==
    \A r \in Reqs :
        LET q == req[r]
        IN  (q.pc \in {"headers", "done"} /\ "sitemap" \in Range(q.trace)) =>
                /\ q.responder = "sitemap"
                /\ q.responses = 1
                /\ IF q.error # ""
                   THEN /\ q.status = 500
                        /\ q.body.kind # "xml"
                        /\ q.method = "GET" => q.body = TextBody("Internal Server Error")
                        /\ \A h \in q.headers : h[2] # "application/xml"
                   ELSE /\ q.status = 200
                        /\ {h \in q.headers : h[1] = "Content-Type"}
                               = {<<"Content-Type", "application/xml">>}
                        /\ <<"Cache-Control", "public, max-age=86400">> \in q.headers
                        /\ q.method = "GET" =>
                               /\ q.body.kind = "xml"
                               /\ Len(q.body.urlset)
                                     = Cardinality({f \in DOMAIN store :
                                           endsWith(f, <<".", "h", "t", "m", "l">>)})

C16_Witness ==
    \E r \in Reqs :
        /\ req[r].pc = "done" /\ req[r].responder = "sitemap" /\ req[r].method = "GET"
        /\ req[r].error = "stat failed"
        /\ req[r].status = 500

\* C17: within one font acquisition the two stylesheet fetches are issued
\* together (both are in flight while either is awaited) and so are the two
\* font fetches; no font fetch is issued before both stylesheets have yielded
\* a URL; an acquisition in which a fetch has failed does not complete.
C17_PairedFetches ==
    \A r \in Reqs :
        LET q == req[r]
        IN  /\ q.serifCss = "pending" => q.sansCss = "pending"
            /\ q.sansCss = "pending" => q.serifCss # ""
            /\ (q.serifData = "") <=> (q.sansData = "")
            /\ q.serifData # "" => UrlMatch(q.serifCss) /\ UrlMatch(q.sansCss)
            /\ q.assigned =>
                   \A o \in {q.serifCss, q.sansCss, q.serifData, q.sansData} : o = "ok"

\* C18: failures and stalls stay within one request: a request that waits
\* for a fetch or for the store does not hold the event loop, so every other
\* request can take its steps, and a /og.png request is answered 500 only
\* for a failure of its own (one of its own fetches failed or yielded no
\* font URL, or rendering failed on sound fonts), never for the failure of
\* another request.
C18_Waiting == {"awaitSerifCss", "awaitSansCss", "awaitFonts", "awaitReaddir"}

C18_OwnFailure(q) ==
    \/ {q.serifCss, q.sansCss, q.serifData, q.sansData} \cap {"http", "neterr", "shape"} # {}
    \/ FontsUsable(q.fonts)

C18_FailuresAreLocal ==
    \A r \in Reqs :
        LET q == req[r]
        IN  /\ q.pc \in C18_Waiting => cur # r
            /\ (q.pc \in {"headers", "done"} /\ q.responder = "og" /\ q.status = 500) =>
                   C18_OwnFailure(q)

\* C19: the font cache is monotonic: once it is populated no step empties
\* it, and a step of an acquisition in which a fetch has failed (transport
\* failure, non-success response or a stylesheet without font URL) leaves a
\* populated cache as it is.
C19_Failed(q) ==
    {q.serifCss, q.sansCss, q.serifData, q.sansData} \cap {"http", "neterr", "shape"} # {}

C19_CacheMonotonic ==
    [][fontsCache # Null =>
          /\ fontsCache' # Null
          /\ \A r \in Reqs :
                 (req'[r] # req[r] /\ C19_Failed(req'[r])) => fontsCache' = fontsCache]_vars

\* C20: every request is eventually answered, provided every fetch and
\* every read of the store it starts completes and its handler's steps are
\* taken: no handler waits for another request, holds a lock or loops.
C20_EveryRequestAnswered ==
    \A r \in Reqs : (req[r].pc # "idle") ~> (req[r].pc = "done")

C20_Witness ==
    \E r, s \in Reqs :
        /\ req[r].pc = "done" /\ req[r].responder = "og" /\ req[r].fetches = 4
        /\ req[s].pc = "awaitFonts"
====
